---- MODULE Spec2Model ----
(***************************************************************************)
(* Model of quant_backend.py: the QuantBackend signal engine and the       *)
(* MT5Server that serves it, one thread per accepted connection, all       *)
(* threads sharing one engine.                                             *)
(*                                                                         *)
(* Reals are fixed point: prices, z-scores, correlations and the filter    *)
(* belief are integers in units of 1/Unit; entries of the smoothed         *)
(* correlation matrix are integers in units of 1/MUnit, fine enough that   *)
(* MaxCalls exponential smoothings are exact.  NaN is a value of its own.  *)
(***************************************************************************)
EXTENDS Integers, Sequences, FiniteSets, TLC

\* ------------------------------------------------------------------ bounds
MaxSessions == 2      \* connections the accept loop takes in one run
MaxCalls == 3         \* engine calls (requests or direct calls) in one run

\* ------------------------------------------------------------ fixed point
Unit == 10 * 10
RECURSIVE Pow(_, _)
Pow(b, e) == IF e = 0 THEN 1 ELSE b * Pow(b, e - 1)
SmoothDen == 20                        \* 0.95 = 19/20 and 0.05 = 1/20
SmoothKeep == 19
SmoothNew == 1
MUnit == Unit * Pow(SmoothDen, MaxCalls)
NaN == 0 - 100 * MUnit

Min(a, b) == IF a < b THEN a ELSE b
Abs(n) == IF n < 0 THEN 0 - n ELSE n
Sign(n) == IF n < 0 THEN 0 - 1 ELSE IF n > 0 THEN 1 ELSE 0
\* floor of the square root of n, for 0 <= n < SqrtMax * SqrtMax
SqrtMax == 10 * Unit
ISqrt(n) == CHOOSE k \in 0..SqrtMax : k * k <= n /\ (k + 1) * (k + 1) > n

\* ----------------------------------------------------------------- arrays
\* A numpy array or JSON list: nd is the number of dimensions, v the data
\* (nd = 0: <<x>>, nd = 1: a sequence, nd = 2: a sequence of equal-length rows).
Scalar(x) == [nd |-> 0, v |-> <<x>>]
Arr1(s) == [nd |-> 1, v |-> s]
Arr2(rows) == [nd |-> 2, v |-> rows]
Absent == [nd |-> 0 - 1, v |-> <<>>]       \* a key the request does not hold

\* len(a)
PyLen(a) == Len(a.v)

\* a[-1]: the last element along the first axis; ok = FALSE is IndexError
LastElem(a) ==
    IF a.nd = 0 \/ Len(a.v) = 0 THEN [ok |-> FALSE, val |-> Absent]
    ELSE IF a.nd = 1 THEN [ok |-> TRUE, val |-> Scalar(a.v[Len(a.v)])]
    ELSE [ok |-> TRUE, val |-> Arr1(a.v[Len(a.v)])]

\* a[-20:]
Window == 20
Last20(a) ==
    LET n == Len(a.v)
        k == Min(n, Window)
    IN  [nd |-> a.nd, v |-> [i \in 1..k |-> a.v[n - k + i]]]

DiffSeq(s) == [i \in 1..(IF Len(s) = 0 THEN 0 ELSE Len(s) - 1) |-> s[i + 1] - s[i]]

\* np.diff(a): first difference along the last axis
Diff(a) ==
    IF a.nd = 1 THEN Arr1(DiffSeq(a.v))
    ELSE Arr2([i \in 1..Len(a.v) |-> DiffSeq(a.v[i])])

\* the rows of a once it is made two-dimensional for column_stack:
\* a 1-D array of length n becomes n rows of one column
AsColumns(a) ==
    IF a.nd = 1 THEN [i \in 1..Len(a.v) |-> <<a.v[i]>>] ELSE a.v

\* variant: the three arrays are cut to the shortest before they are stacked
ColumnStack_trim(a, b, c) ==
    LET ra == AsColumns(a)
        rb == AsColumns(b)
        rc == AsColumns(c)
        n == Min(Len(ra), Min(Len(rb), Len(rc)))
    IN  [ok |-> TRUE, val |-> Arr2([i \in 1..n |-> ra[i] \o rb[i] \o rc[i]])]

\* np.column_stack((a, b, c)); ok = FALSE is the ValueError of concatenate
\* when the arrays do not have the same number of rows
ColumnStack(a, b, c) ==
    LET ra == AsColumns(a)
        rb == AsColumns(b)
        rc == AsColumns(c)
    IN  IF Len(ra) = Len(rb) /\ Len(rb) = Len(rc)
        THEN [ok |-> TRUE, val |-> Arr2([i \in 1..Len(ra) |-> ra[i] \o rb[i] \o rc[i]])]
        ELSE [ok |-> FALSE, val |-> Absent]

\* -------------------------------------------------------------- statistics
RECURSIVE SumTo(_, _)
SumTo(s, n) == IF n = 0 THEN 0 ELSE s[n] + SumTo(s, n - 1)
SumSeq(s) == SumTo(s, Len(s))

\* the elements of a two-dimensional array in row-major order
RECURSIVE FlattenTo(_, _)
FlattenTo(rows, n) == IF n = 0 THEN <<>> ELSE FlattenTo(rows, n - 1) \o rows[n]
Flatten(rows) == FlattenTo(rows, Len(rows))

\* n * sum(x*y) - sum(x) * sum(y): n*n times the population covariance
SS(x, y) ==
    Len(x) * SumSeq([i \in 1..Len(x) |-> x[i] * y[i]]) - SumSeq(x) * SumSeq(y)

\* the variables (rows) numpy sees in an argument of corrcoef / cov
Rows(a) == IF a.nd = 1 THEN <<a.v>> ELSE a.v

\* np.concatenate((X, y), axis=0) inside np.cov: ok = FALSE is its ValueError
\* when the two arguments do not have the same number of columns
Stacked(p1, p2) ==
    LET r1 == Rows(p1)
        r2 == Rows(p2)
    IN  IF Len(r1[1]) = Len(r2[1])
        THEN [ok |-> TRUE, rows |-> r1 \o r2]
        ELSE [ok |-> FALSE, rows |-> <<>>]

\* Pearson correlation of two rows in units of 1/Unit, rounded toward zero;
\* NaN when a row has zero variance (0/0) or fewer than two observations
Pearson(x, y) ==
    LET sxy == SS(x, y)
        d == SS(x, x) * SS(y, y)
        a == Abs(sxy) * Unit
    IN  IF d = 0 THEN NaN
        ELSE Sign(sxy) * (CHOOSE k \in 0..Unit :
                            /\ k * k * d <= a * a
                            /\ (k = Unit \/ (k + 1) * (k + 1) * d > a * a))

\* np.corrcoef(pair1, pair2): the matrix over the stacked rows
CorrcoefMatrix(rows) ==
    [i \in 1..Len(rows) |-> [j \in 1..Len(rows) |-> Pearson(rows[i], rows[j])]]

\* np.cov(pair1, pair2)[0, 1] (ddof = 1) in units of 1/Unit; NaN with fewer
\* than two observations (division by zero degrees of freedom)
Cov01(rows) ==
    LET m == Len(rows[1])
    IN  IF m < 2 THEN NaN
        ELSE (SS(rows[1], rows[2]) * Unit) \div (m * (m - 1))

\* np.var(a) (ddof = 0, over all elements) in units of 1/Unit
Var(a) ==
    LET z == IF a.nd = 1 THEN a.v ELSE Flatten(a.v)
        n == Len(z)
    IN  IF n = 0 THEN NaN ELSE (SS(z, z) * Unit) \div (n * n)

\* float division as numpy does it: a zero divisor gives inf or nan with a
\* warning, never an exception; both are NaN here
FDiv(a, b) ==
    IF a = NaN \/ b = NaN \/ b = 0 THEN NaN ELSE (a * Unit) \div b

FMul(a, b) ==
    IF a = NaN \/ b = NaN THEN NaN ELSE (a * b) \div Unit

\* np.std(a) in units of 1/Unit
Std(a) ==
    LET var == Var(a)
    IN  IF var = NaN THEN NaN ELSE ISqrt(var * Unit)

\* ------------------------------------------------------------------ inputs
\* The arrays the requests and the direct calls are built from.
ScenarioLen == 30
Arrays == <<
    Arr1([i \in 1..ScenarioLen |-> i]),        \* 1: prices 1, 2, ..., 30
    Arr1([i \in 1..ScenarioLen |-> 100]),      \* 2: volumes [100] * 30
    Arr1(<<>>),                                \* 3: an empty list
    Arr2(<< <<1, 2>>, <<3, 4>> >>),            \* 4: nested prices, 2 x 2
    Arr2(<< <<5>>, <<6>> >>),                  \* 5: nested prices, 2 x 1
    Arr1(<<1, 2, 3, 4, 5>>),                   \* 6
    Arr1(<<2, 3, 1, 4, 5>>),                   \* 7: correlation 0.7 with 6
    Arr1(<<5, 4, 3, 2, 1>>),                   \* 8: correlation -1 with 6
    Arr1(<<3, 3, 3, 3, 3>>),                   \* 9: constant, zero variance
    Arr1(<<7>>),                               \* 10: one observation
    Arr1(<<10, 20>>),                          \* 11: two observations
    Arr1(<<1, 2, 3, 5, 4>>)                    \* 12: correlation 0.9 with 6
>>
ArrIds == 1..Len(Arrays)
NoArr == Len(Arrays) + 1                       \* the id of no array
Arr(i) == IF i = NoArr THEN Absent ELSE Arrays[i]

\* What one recv() hands the handler.  kind: "badutf8" (bytes that are not
\* UTF-8), "badjson" (text that is not JSON), "json" (a JSON object with the
\* keys whose array id is not NoArr).
Req(kind, prices, volumes, pair1, pair2) ==
    [kind |-> kind, prices |-> prices, volumes |-> volumes,
     pair1 |-> pair1, pair2 |-> pair2]
Requests == <<
    Req("badutf8", NoArr, NoArr, NoArr, NoArr),    \* 1
    Req("badjson", NoArr, NoArr, NoArr, NoArr),    \* 2
    Req("json", NoArr, 2, NoArr, NoArr),           \* 3: no prices key
    Req("json", 1, 2, NoArr, NoArr),               \* 4: the end-to-end scenario
    Req("json", 4, 11, NoArr, NoArr),              \* 5: nested prices, no pairs
    Req("json", 4, 11, 6, 7),                      \* 6: pairs at correlation 0.7
    Req("json", 4, 11, 10, 6),                     \* 7: pair1 has one observation
    Req("json", 5, 11, 6, 8),                      \* 8: one-column nested prices
    Req("json", 4, 11, 6, 9),                      \* 9: pair2 constant
    Req("json", 4, 11, 6, 11),                     \* 10: pairs of unequal length
    Req("json", 3, 3, NoArr, NoArr),               \* 11: empty prices
    Req("json", 4, 11, 6, 12),                     \* 12: pairs at correlation 0.9
    Req("json", 5, 11, 6, 7),                      \* 13: one column, pairs at 0.7
    Req("json", 6, 7, 6, 7),                       \* 14: flat arrays of 5, with pairs
    Req("json", 10, 10, NoArr, NoArr),             \* 15: flat arrays of 1
    Req("json", 5, 11, 6, 11)                      \* 16: one column, unequal pairs
>>
ReqIds == 1..Len(Requests)
NoReq == Len(Requests) + 1                     \* the id of no request
ScenarioReq == CHOOSE i \in ReqIds : Requests[i] = Req("json", 1, 2, NoArr, NoArr)

\* ------------------------------------------------------------------- state
VARIABLES
    kalman_filter,        \* self.kalman_filter: None or the filter's x and P
    hmm_model,            \* self.hmm_model: "None", "unfitted" or "fitted"
    regime_history,       \* self.regime_history: the list of labels
    correlation_matrix,   \* self.correlation_matrix: None or an array
    pc,                   \* where each thread is
    frame,                \* the locals of the call each thread is in
    ret,                  \* what the last finished call of each thread returned
    sock,                 \* each session's client_socket: "none", "open", "closed"
    conn,                 \* each connection as the peer left it: "up", "fin", "reset"
    inbox,                \* the bytes waiting in each connection: a request id
    nrecv,                \* requests each handler has received
    nsent,                \* responses each handler has sent
    listening,            \* the accept loop is running
    calls                 \* engine calls started so far

engine == <<kalman_filter, hmm_model, regime_history, correlation_matrix>>
threads == <<pc, frame, ret>>
net == <<sock, conn, inbox, nrecv, nsent, listening>>
vars == <<kalman_filter, hmm_model, regime_history, correlation_matrix,
          pc, frame, ret, sock, conn, inbox, nrecv, nsent, listening, calls>>

Caller == 0                       \* the thread of a program calling the engine directly
Sessions == 1..MaxSessions        \* the handler threads of the server
Threads == {Caller} \cup Sessions

\* ---------------------------------------------------------- floats with NaN
FGt(a, b) == a # NaN /\ b # NaN /\ a > b
FAbs(a) == IF a = NaN THEN NaN ELSE Abs(a)
FSub(a, b) == IF a = NaN \/ b = NaN THEN NaN ELSE a - b

\* ----------------------------------------------------------- adaptive filter
NoneFilter == [is_none |-> TRUE, x |-> <<>>, P |-> <<>>]
KalmanR == 10                     \* R = 0.1
KalmanQ == 1                      \* Q = 0.01 on the diagonal

\* initialize_kalman_filter: a new filter with the caller's x and P
initialize_kalman_filter(initial_state, initial_covariance) ==
    [is_none |-> FALSE, x |-> initial_state, P |-> initial_covariance]

\* KalmanFilter.predict() with the default F = I and no control input:
\* x = F x, P = F P F' + Q
Predict(kf) ==
    [kf EXCEPT !.P = << <<kf.P[1][1] + KalmanQ, kf.P[1][2]>>,
                        <<kf.P[2][1], kf.P[2][2] + KalmanQ>> >>]

\* reshape_z in KalmanFilter.update: the observation must be convertible to
\* shape (dim_z, 1) = (1, 1); a row of any other length is a ValueError
ObservationOk(spread) == spread.nd = 0 \/ Len(spread.v) = 1

\* KalmanFilter.update(z) with H = [1, 0]: y = z - x0, S = P00 + R,
\* K = P H' / S, x = x + K y, P = (I - K H) P (I - K H)' + K R K', which is
\* [[R P00 / S, R P01 / S], [R P10 / S, P11 - P10 P01 / S]].
\* ok = FALSE is the LinAlgError of inverting S = 0.
Update(kf, z) ==
    LET y == z - kf.x[1]
        S == kf.P[1][1] + KalmanR
    IN  IF S = 0 THEN [ok |-> FALSE, kf |-> kf]
        ELSE [ok |-> TRUE,
              kf |-> [kf EXCEPT
                  !.x = <<kf.x[1] + (kf.P[1][1] * y) \div S,
                          kf.x[2] + (kf.P[2][1] * y) \div S>>,
                  !.P = << <<(KalmanR * kf.P[1][1]) \div S,
                             (KalmanR * kf.P[1][2]) \div S>>,
                           <<(KalmanR * kf.P[2][1]) \div S,
                             kf.P[2][2] - (kf.P[2][1] * kf.P[1][2]) \div S>> >>]]

\* lines 47-53: the z-score from the filter as it stands
ZscoreOf(kf, z) ==
    LET mean == kf.x[1]
        std == IF kf.P[1][1] < 0 THEN NaN ELSE ISqrt(kf.P[1][1] * Unit)
    IN  IF std = 0 THEN 0 ELSE FDiv(FSub(z, mean), std)

\* the observation as a number in units of 1/Unit
Observed(spread) == spread.v[1] * Unit

\* ------------------------------------------------------- regime classifier
RegimeWarmup == 100
StableWindow == 10
NComponents == 2
Labels == 0..(NComponents - 1)

\* np.diff(np.log(price_data)).reshape(-1, 1): how many samples the model gets
NumReturns(a) ==
    IF a.nd = 1 THEN (IF Len(a.v) = 0 THEN 0 ELSE Len(a.v) - 1)
    ELSE Len(Flatten(Diff(a).v))

\* lines 89-93: the last 10 labels are all the same
Stable(history) ==
    IF Len(history) >= StableWindow
    THEN \A i \in (Len(history) - StableWindow + 1)..Len(history) :
            history[i] = history[Len(history)]
    ELSE FALSE

\* ----------------------------------------------------- probability classifier
\* self.rf_classifier is constructed unfitted and nothing in the file fits it
rf_has_classes == FALSE
PredictProba(features) == CHOOSE p \in 0..Unit : TRUE

calculate_ml_probability(features) ==
    IF ~rf_has_classes THEN Unit \div 2 ELSE PredictProba(features)

\* ------------------------------------------------------------ hedge estimator
NoneMatrix == [is_none |-> TRUE, m |-> <<>>]
MinPair == 2

\* the shape of a two-dimensional array
Shape(m) == <<Len(m), IF Len(m) = 0 THEN 0 ELSE Len(m[1])>>

\* a real in units of 1/Unit as an entry of the matrix, in units of 1/MUnit
Entry(c) == IF c = NaN THEN NaN ELSE c * (MUnit \div Unit)

\* variant: the observation is built as the single row [1.0, correlation]
ObservedMatrix_row(correlation) ==
    << <<Entry(Unit), Entry(correlation)>> >>

\* np.array([[1.0, correlation], [correlation, 1.0]])
ObservedMatrix(correlation) ==
    << <<Entry(Unit), Entry(correlation)>>, <<Entry(correlation), Entry(Unit)>> >>

\* variant: the weights the other way round, 0.05 * a + 0.95 * b
Blend_swapped(a, b) ==
    IF a = NaN \/ b = NaN THEN NaN
    ELSE (SmoothNew * a + SmoothKeep * b) \div SmoothDen

\* variant: the old entry is not scaled down, a + 0.05 * b
Blend_sum(a, b) ==
    IF a = NaN \/ b = NaN THEN NaN
    ELSE a + (SmoothNew * b) \div SmoothDen

\* 0.95 * a + 0.05 * b on two entries
Blend(a, b) ==
    IF a = NaN \/ b = NaN THEN NaN
    ELSE (SmoothKeep * a + SmoothNew * b) \div SmoothDen

\* 0.95 * old + 0.05 * new with numpy's broadcasting; ok = FALSE is the
\* ValueError "operands could not be broadcast together"
Smooth(old, new) ==
    LET so == Shape(old)
        sn == Shape(new)
        fits(a, b) == a = b \/ a = 1 \/ b = 1
        dim(a, b) == IF a = 1 THEN b ELSE a
        at(m, s, i, j) == m[IF s[1] = 1 THEN 1 ELSE i][IF s[2] = 1 THEN 1 ELSE j]
    IN  IF fits(so[1], sn[1]) /\ fits(so[2], sn[2])
        THEN [ok |-> TRUE,
              m |-> [i \in 1..dim(so[1], sn[1]) |->
                        [j \in 1..dim(so[2], sn[2]) |->
                            Blend(at(old, so, i, j), at(new, sn, i, j))]]]
        ELSE [ok |-> FALSE, m |-> <<>>]

\* lines 122-129: the length guard, the correlation and the beta.
\* kind "short": the guard returns the float 0.0; "raise": np.corrcoef fails;
\* "ok": the values the rest of the call works with
HedgeEntry(pair1, pair2) ==
    IF PyLen(pair1) < MinPair \/ PyLen(pair2) < MinPair
    THEN [kind |-> "short", correlation |-> 0, beta |-> 0, hedge_ratio |-> 0]
    ELSE LET st == Stacked(pair1, pair2)
         IN  IF ~st.ok
             THEN [kind |-> "raise", correlation |-> 0, beta |-> 0, hedge_ratio |-> 0]
             ELSE LET beta == FDiv(Cov01(st.rows), Var(pair2))
                  IN  [kind |-> "ok",
                       correlation |-> CorrcoefMatrix(st.rows)[1][2],
                       beta |-> beta,
                       hedge_ratio |-> FMul(beta, FDiv(Std(pair1), Std(pair2)))]

\* lines 122-129 are pure in the two price arrays: their outcome for every
\* pair of the short arrays a caller passes as pair prices
HedgeIds == {i \in ArrIds : PyLen(Arrays[i]) < ScenarioLen}
HedgeTable ==
    [a \in HedgeIds |-> [b \in HedgeIds |-> HedgeEntry(Arrays[a], Arrays[b])]]

\* what calculate_hedge_ratio returns: the float 0.0 of the guard (line 123)
\* or the dict of lines 137-141
HedgeFloat == [kind |-> "float", v |-> 0]
HedgeDict(f) ==
    [kind |-> "dict", correlation |-> f.corr, beta |-> f.beta,
     hedge_ratio |-> f.hedge_ratio]

\* ------------------------------------------------------ stopping estimator
\* the (previous, next) pairs np.diff(np.log(position_data)) runs over
ReturnPairs(a) ==
    IF a.nd = 1
    THEN {<<a.v[i], a.v[i + 1]>> : i \in 1..(IF Len(a.v) = 0 THEN 0 ELSE Len(a.v) - 1)}
    ELSE UNION {{<<a.v[r][i], a.v[r][i + 1]>> :
                    i \in 1..(IF Len(a.v[r]) = 0 THEN 0 ELSE Len(a.v[r]) - 1)} :
                 r \in 1..Len(a.v)}

\* the sum of the log returns telescopes to log(last / first) of each series:
\* its sign is that of prod(last) - prod(first)
RECURSIVE ProdTo(_, _)
ProdTo(s, n) == IF n = 0 THEN 1 ELSE s[n] * ProdTo(s, n - 1)
ProdFirst(rows) == ProdTo([r \in 1..Len(rows) |-> rows[r][1]], Len(rows))
ProdLast(rows) == ProdTo([r \in 1..Len(rows) |-> rows[r][Len(rows[r])]], Len(rows))

\* calculate_optimal_stop on positive prices: mean - 0.5 * 2.0 * std^2 < 0.
\* The logarithm is not computed: the result is decided where the signs of
\* the mean and of the variance decide it, and is either value where they do
\* not (positive mean and positive variance).
StopOutcomes(a) ==
    IF PyLen(a) < MinPair THEN {FALSE}
    ELSE LET pairs == ReturnPairs(a)
             mean == Sign(ProdLast(Rows(a)) - ProdFirst(Rows(a)))
             flat == \A p \in pairs, q \in pairs : p[2] * q[1] = q[2] * p[1]
         IN  IF pairs = {} THEN {FALSE}           \* mean of nothing is nan
             ELSE IF mean < 0 THEN {TRUE}
             ELSE IF mean = 0 THEN {~flat}
             ELSE IF flat THEN {FALSE}
             ELSE BOOLEAN

\* ------------------------------------------------------------ fusion engine
ZThreshold == 2 * Unit                   \* 2.0
HedgeThreshold == (7 * Unit) \div 10     \* 0.7

\* variant: the two comparisons are >= instead of >
Bundle_inclusive(zscore, regime, ml_prob, correlation, stop_signal) ==
    [zScore |-> zscore,
     isDirectionalRegime |-> regime,
     mlProbability |-> ml_prob,
     kalmanSignal |-> FGt(FAbs(zscore), ZThreshold) \/ FAbs(zscore) = ZThreshold,
     hedgeSignal |-> FGt(correlation, HedgeThreshold) \/ correlation = HedgeThreshold,
     correlation |-> correlation,
     optimalStopSignal |-> stop_signal]

\* lines 192-200: the response dict
Bundle(zscore, regime, ml_prob, correlation, stop_signal) ==
    [zScore |-> zscore,
     isDirectionalRegime |-> regime,
     mlProbability |-> ml_prob,
     kalmanSignal |-> FGt(FAbs(zscore), ZThreshold),
     hedgeSignal |-> FGt(correlation, HedgeThreshold),
     correlation |-> correlation,
     optimalStopSignal |-> stop_signal]

\* json.dumps of a dict: the text is kept as the object it encodes
Json(obj) == [kind |-> "json", obj |-> obj]
ErrorJson(exc) == Json([error |-> exc])

\* ----------------------------------------------------------------- threads
\* The locals of the call a thread is in.  op is the engine method the thread
\* (the direct caller or a handler) called; a1 and a2 are the ids of the
\* arrays handed to calculate_hedge_ratio, detect_regime or
\* calculate_optimal_stop.
NoFrame ==
    [op |-> "none", req |-> NoReq, a1 |-> NoArr, a2 |-> NoArr, spread |-> Absent,
     zscore |-> 0, regime |-> FALSE, ml |-> 0, label |-> 0,
     corr |-> 0, beta |-> 0, hedge_ratio |-> 0, mread |-> <<>>]
NoRet == [kind |-> "none"]

Prices(f) == Arr(Requests[f.req].prices)

Goto(t, f, label) ==
    /\ pc' = [pc EXCEPT ![t] = label]
    /\ frame' = [frame EXCEPT ![t] = f]
    /\ UNCHANGED ret

\* the method the thread called returns r: the direct caller has its value,
\* a handler goes on to send it (line 244)
Done(t, f, r) ==
    /\ pc' = [pc EXCEPT ![t] = IF t = Caller THEN "idle" ELSE "send"]
    /\ frame' = [frame EXCEPT ![t] = f]
    /\ ret' = [ret EXCEPT ![t] = r]

\* variant: process_mt5_data catches the parsing errors only
Raise_narrow(t, f, exc) ==
    IF f.op = "process" /\ exc \in {"JSONDecodeError", "KeyError"}
    THEN Done(t, f, ErrorJson(exc))
    ELSE Done(t, f, [kind |-> "raised", exc |-> exc])

\* an exception is raised in the call: process_mt5_data turns it into the
\* error descriptor (lines 204-208), any other method lets it through; exc is
\* the exception with what its message says
Raise(t, f, exc) ==
    IF f.op = "process"
    THEN Done(t, f, ErrorJson(exc))
    ELSE Done(t, f, [kind |-> "raised", exc |-> exc])

\* calculate_hedge_ratio returns hd.  In process_mt5_data: line 189 and the
\* response of lines 192-202, where hedge_data['correlation'] on the float of
\* the length guard is a TypeError
ReturnHedge(t, f, hd) ==
    IF f.op = "hedge"
    THEN Done(t, f, hd)
    ELSE \E stop_signal \in StopOutcomes(Prices(f)) :
            IF hd.kind = "float"
            THEN Raise(t, f, "TypeError")
            ELSE Done(t, f, Json(Bundle(f.zscore, f.regime, f.ml,
                                        hd.correlation, stop_signal)))

\* lines 175-179 are pure in the two arrays of the request: the feature
\* matrix, or the failure to build it, for every pair of arrays
FeaturesTable ==
    [p \in ArrIds |-> [v \in ArrIds |->
        ColumnStack(Last20(Arrays[p]), Last20(Arrays[v]), Diff(Last20(Arrays[p])))]]

\* detect_regime returns b.  In process_mt5_data: the features of lines
\* 175-179 (a ValueError when the three arrays do not stack), line 180, and
\* the arguments of lines 183-186
ReturnRegime(t, f, b) ==
    IF f.op = "regime"
    THEN Done(t, f, [kind |-> "bool", v |-> b])
    ELSE LET r == Requests[f.req]
             features == FeaturesTable[r.prices][r.volumes]
         IN  IF ~features.ok
             THEN Raise(t, [f EXCEPT !.regime = b], "ValueError: concatenate")
             ELSE Goto(t, [f EXCEPT !.regime = b,
                                    !.ml = calculate_ml_probability(features.val),
                                    !.a1 = IF r.pair1 = NoArr THEN r.prices ELSE r.pair1,
                                    !.a2 = IF r.pair2 = NoArr THEN r.prices ELSE r.pair2],
                       "H_entry")

\* calculate_zscore returns z.  In process_mt5_data: on to line 172
ReturnZscore(t, f, z) ==
    IF f.op = "zscore"
    THEN Done(t, f, [kind |-> "float", v |-> z])
    ELSE Goto(t, [f EXCEPT !.zscore = z, !.a1 = Requests[f.req].prices], "R_entry")

\* lines 164-171 up to the call of calculate_zscore: json.loads, the two
\* required keys, and prices[-1]
BeginProcess(t, req) ==
    LET r == Requests[req]
        f == [NoFrame EXCEPT !.op = "process", !.req = req]
        last == LastElem(Arr(r.prices))
    IN  IF r.kind # "json" THEN Raise(t, f, "JSONDecodeError")
        ELSE IF r.prices = NoArr \/ r.volumes = NoArr THEN Raise(t, f, "KeyError")
        ELSE IF ~last.ok THEN Raise(t, f, "IndexError")
        ELSE Goto(t, [f EXCEPT !.spread = last.val], "Z_entry")

\* --------------------------------------------------- calculate_zscore, by step
\* variant: no check for a missing filter, so predict is called on None
Z_entry_unguarded(t) ==
    /\ pc[t] = "Z_entry"
    /\ IF kalman_filter.is_none
       THEN Raise(t, frame[t], "AttributeError")
       ELSE Goto(t, frame[t], "Z_predict")
    /\ UNCHANGED <<engine, net, calls>>

\* line 41: the filter is None
Z_entry(t) ==
    /\ pc[t] = "Z_entry"
    /\ IF kalman_filter.is_none
       THEN ReturnZscore(t, frame[t], 0)
       ELSE Goto(t, frame[t], "Z_predict")
    /\ UNCHANGED <<engine, net, calls>>

\* line 44
Z_predict(t) ==
    /\ pc[t] = "Z_predict"
    /\ kalman_filter' = Predict(kalman_filter)
    /\ Goto(t, frame[t], "Z_update")
    /\ UNCHANGED <<hmm_model, regime_history, correlation_matrix, net, calls>>

\* line 45
Z_update(t) ==
    /\ pc[t] = "Z_update"
    /\ IF ~ObservationOk(frame[t].spread)
       THEN /\ Raise(t, frame[t], "ValueError: reshape_z")
            /\ UNCHANGED kalman_filter
       ELSE LET u == Update(kalman_filter, Observed(frame[t].spread))
            IN  IF u.ok
                THEN /\ kalman_filter' = u.kf
                     /\ Goto(t, frame[t], "Z_ret")
                ELSE /\ Raise(t, frame[t], "LinAlgError")
                     /\ UNCHANGED kalman_filter
    /\ UNCHANGED <<hmm_model, regime_history, correlation_matrix, net, calls>>

\* lines 47-53
Z_ret(t) ==
    /\ pc[t] = "Z_ret"
    /\ ReturnZscore(t, frame[t], ZscoreOf(kalman_filter, Observed(frame[t].spread)))
    /\ UNCHANGED <<engine, net, calls>>

\* ------------------------------------------------------ detect_regime, by step
\* variant: the guard compares with the stability window instead of 100
R_entry_window(t) ==
    /\ pc[t] = "R_entry"
    /\ IF Len(regime_history) < StableWindow
       THEN ReturnRegime(t, frame[t], FALSE)
       ELSE Goto(t, frame[t], "R_checkfit")
    /\ UNCHANGED <<engine, net, calls>>

\* variant: the comparison of the guard is the wrong way round
R_entry_reversed(t) ==
    /\ pc[t] = "R_entry"
    /\ IF Len(regime_history) > RegimeWarmup
       THEN ReturnRegime(t, frame[t], FALSE)
       ELSE Goto(t, frame[t], "R_checkfit")
    /\ UNCHANGED <<engine, net, calls>>

\* lines 72-77: the cold-start guard
R_entry(t) ==
    /\ pc[t] = "R_entry"
    /\ IF Len(regime_history) < RegimeWarmup
       THEN ReturnRegime(t, frame[t], FALSE)
       ELSE Goto(t, frame[t], "R_checkfit")
    /\ UNCHANGED <<engine, net, calls>>

\* line 80
R_checkfit(t) ==
    /\ pc[t] = "R_checkfit"
    /\ Goto(t, frame[t], IF hmm_model = "None" THEN "R_new" ELSE "R_predict")
    /\ UNCHANGED <<engine, net, calls>>

\* line 81: the new model is assigned before it is fitted
R_new(t) ==
    /\ pc[t] = "R_new"
    /\ hmm_model' = "unfitted"
    /\ Goto(t, frame[t], "R_fit")
    /\ UNCHANGED <<kalman_filter, regime_history, correlation_matrix, net, calls>>

\* variant: a failed fit drops the model
R_fit_drop(t) ==
    /\ pc[t] = "R_fit"
    /\ IF NumReturns(Arr(frame[t].a1)) < NComponents
       THEN /\ Raise(t, frame[t], "ValueError: fit")
            /\ hmm_model' = "None"
       ELSE /\ hmm_model' = "fitted"
            /\ Goto(t, frame[t], "R_predict")
    /\ UNCHANGED <<kalman_filter, regime_history, correlation_matrix, net, calls>>

\* line 82: self.hmm_model.fit(returns); fitting two states needs two samples
R_fit(t) ==
    /\ pc[t] = "R_fit"
    /\ IF NumReturns(Arr(frame[t].a1)) < NComponents
       THEN /\ Raise(t, frame[t], "ValueError: fit")
            /\ UNCHANGED hmm_model
       ELSE /\ hmm_model' = "fitted"
            /\ Goto(t, frame[t], "R_predict")
    /\ UNCHANGED <<kalman_filter, regime_history, correlation_matrix, net, calls>>

\* line 85: self.hmm_model.predict(returns); the label is the model's choice
R_predict(t) ==
    /\ pc[t] = "R_predict"
    /\ IF hmm_model # "fitted"
       THEN Raise(t, frame[t], "NotFittedError")
       ELSE IF NumReturns(Arr(frame[t].a1)) = 0
       THEN Raise(t, frame[t], "ValueError: predict")
       ELSE \E label \in Labels : Goto(t, [frame[t] EXCEPT !.label = label], "R_append")
    /\ UNCHANGED <<engine, net, calls>>

\* line 86
R_append(t) ==
    /\ pc[t] = "R_append"
    /\ regime_history' = Append(regime_history, frame[t].label)
    /\ Goto(t, frame[t], "R_stable")
    /\ UNCHANGED <<kalman_filter, hmm_model, correlation_matrix, net, calls>>

\* lines 89-93
R_stable(t) ==
    /\ pc[t] = "R_stable"
    /\ ReturnRegime(t, frame[t], Stable(regime_history))
    /\ UNCHANGED <<engine, net, calls>>

\* ---------------------------------------------- calculate_hedge_ratio, by step
\* lines 122-129
H_entry(t) ==
    /\ pc[t] = "H_entry"
    /\ LET h == HedgeTable[frame[t].a1][frame[t].a2]
       IN  IF h.kind = "short" THEN ReturnHedge(t, frame[t], HedgeFloat)
           ELSE IF h.kind = "raise" THEN Raise(t, frame[t], "ValueError: concatenate")
           ELSE Goto(t, [frame[t] EXCEPT !.corr = h.correlation, !.beta = h.beta,
                                         !.hedge_ratio = h.hedge_ratio], "H_check")
    /\ UNCHANGED <<engine, net, calls>>

\* line 132
H_check(t) ==
    /\ pc[t] = "H_check"
    /\ Goto(t, frame[t], IF correlation_matrix.is_none THEN "H_init" ELSE "H_read")
    /\ UNCHANGED <<engine, net, calls>>

\* variant: the branch that stores the first matrix returns the bare float
H_init_float(t) ==
    /\ pc[t] = "H_init"
    /\ correlation_matrix' = [is_none |-> FALSE, m |-> ObservedMatrix(frame[t].corr)]
    /\ ReturnHedge(t, frame[t], HedgeFloat)
    /\ UNCHANGED <<kalman_filter, hmm_model, regime_history, net, calls>>

\* line 133, then the return of lines 137-141
H_init(t) ==
    /\ pc[t] = "H_init"
    /\ correlation_matrix' = [is_none |-> FALSE, m |-> ObservedMatrix(frame[t].corr)]
    /\ ReturnHedge(t, frame[t], HedgeDict(frame[t]))
    /\ UNCHANGED <<kalman_filter, hmm_model, regime_history, net, calls>>

\* line 135, right-hand side: the matrix is read and blended
H_read(t) ==
    /\ pc[t] = "H_read"
    /\ LET sm == Smooth(correlation_matrix.m, ObservedMatrix(frame[t].corr))
       IN  IF sm.ok
           THEN Goto(t, [frame[t] EXCEPT !.mread = sm.m], "H_write")
           ELSE Raise(t, frame[t], "ValueError: broadcast")
    /\ UNCHANGED <<engine, net, calls>>

\* line 135, the assignment, then the return of lines 137-141
H_write(t) ==
    /\ pc[t] = "H_write"
    /\ correlation_matrix' = [is_none |-> FALSE, m |-> frame[t].mread]
    /\ ReturnHedge(t, frame[t], HedgeDict(frame[t]))
    /\ UNCHANGED <<kalman_filter, hmm_model, regime_history, net, calls>>

\* ------------------------------------------------------------- direct calls
\* A program that holds the engine calls its public methods one at a time.
InitialStates == {<<0, 0>>, <<0 - 66, 0>>, <<0 - 100, 0>>}
InitialCovariances == {<< <<Unit, 0>>, <<0, Unit>> >>}
Spreads == {6}
PriceArgs == {1, 4, 5, 10}
HedgePairs == {<<6, 6>>, <<6, 7>>, <<6, 8>>, <<6, 9>>, <<6, 12>>, <<10, 6>>,
               <<6, 11>>, <<4, 4>>}

CanCall == pc[Caller] = "idle" /\ calls < MaxCalls

CallInitialize ==
    /\ CanCall
    /\ \E x \in InitialStates, P \in InitialCovariances :
          kalman_filter' = initialize_kalman_filter(x, P)
    /\ Done(Caller, [NoFrame EXCEPT !.op = "initialize"], NoRet)
    /\ calls' = calls + 1
    /\ UNCHANGED <<hmm_model, regime_history, correlation_matrix, net>>

CallZscore ==
    /\ CanCall
    /\ \E spread \in Spreads :
          Goto(Caller, [NoFrame EXCEPT !.op = "zscore", !.spread = Scalar(spread)],
               "Z_entry")
    /\ calls' = calls + 1
    /\ UNCHANGED <<engine, net>>

CallRegime ==
    /\ CanCall
    /\ \E a \in PriceArgs :
          Goto(Caller, [NoFrame EXCEPT !.op = "regime", !.a1 = a], "R_entry")
    /\ calls' = calls + 1
    /\ UNCHANGED <<engine, net>>

CallMlProbability ==
    /\ CanCall
    /\ Done(Caller, [NoFrame EXCEPT !.op = "ml"],
            [kind |-> "float", v |-> calculate_ml_probability(Arr(4))])
    /\ calls' = calls + 1
    /\ UNCHANGED <<engine, net>>

CallHedge ==
    /\ CanCall
    /\ \E p \in HedgePairs :
          Goto(Caller, [NoFrame EXCEPT !.op = "hedge", !.a1 = p[1], !.a2 = p[2]],
               "H_entry")
    /\ calls' = calls + 1
    /\ UNCHANGED <<engine, net>>

\* calculate_optimal_stop, lines 143-159
CallStop ==
    /\ CanCall
    /\ \E a \in PriceArgs : \E b \in StopOutcomes(Arr(a)) :
          Done(Caller, [NoFrame EXCEPT !.op = "stop", !.a1 = a],
               [kind |-> "bool", v |-> b])
    /\ calls' = calls + 1
    /\ UNCHANGED <<engine, net>>

\* process_mt5_data(data_json): the argument is a str, so any text
CallProcess ==
    /\ CanCall
    /\ \E req \in ReqIds :
          /\ Requests[req].kind # "badutf8"
          /\ BeginProcess(Caller, req)
    /\ calls' = calls + 1
    /\ UNCHANGED <<engine, net>>

\* ------------------------------------------------------------------- server
\* MT5Server.start, lines 221-230: accept, then a thread running handle_client
Accept(s) ==
    /\ listening
    /\ sock[s] = "none"
    /\ \A r \in Sessions : r < s => sock[r] # "none"
    /\ sock' = [sock EXCEPT ![s] = "open"]
    /\ conn' = [conn EXCEPT ![s] = "up"]
    /\ pc' = [pc EXCEPT ![s] = "recv"]
    /\ UNCHANGED <<engine, frame, ret, inbox, nrecv, nsent, listening, calls>>

\* the requests a peer sends
PeerRequests == {1, 2, 4, 5, 6, 7}
FewRequests == {1, 4, 5}

\* the peer writes one request out of reqs
ClientSend(s, reqs) ==
    /\ sock[s] = "open"
    /\ conn[s] = "up"
    /\ inbox[s] = NoReq
    /\ calls < MaxCalls
    /\ \E req \in reqs : inbox' = [inbox EXCEPT ![s] = req]
    /\ calls' = calls + 1
    /\ UNCHANGED <<engine, threads, sock, conn, nrecv, nsent, listening>>

\* the peer closes its end
ClientClose(s) ==
    /\ conn[s] = "up"
    /\ conn' = [conn EXCEPT ![s] = "fin"]
    /\ UNCHANGED <<engine, threads, sock, inbox, nrecv, nsent, listening, calls>>

\* the connection breaks; what was in flight is lost
ConnReset(s) ==
    /\ conn[s] = "up"
    /\ conn' = [conn EXCEPT ![s] = "reset"]
    /\ inbox' = [inbox EXCEPT ![s] = NoReq]
    /\ UNCHANGED <<engine, threads, sock, nrecv, nsent, listening, calls>>

\* handle_client, lines 236-241: recv raises on a broken connection, returns
\* the waiting bytes, or returns b'' once the peer has closed; data.decode()
\* raises UnicodeDecodeError outside process_mt5_data's try
Recv(s) ==
    /\ pc[s] = "recv"
    /\ IF conn[s] = "reset"
       THEN /\ pc' = [pc EXCEPT ![s] = "finally"]
            /\ UNCHANGED <<frame, ret, inbox, nrecv>>
       ELSE IF inbox[s] # NoReq
       THEN /\ inbox' = [inbox EXCEPT ![s] = NoReq]
            /\ nrecv' = [nrecv EXCEPT ![s] = @ + 1]
            /\ IF Requests[inbox[s]].kind = "badutf8"
               THEN /\ pc' = [pc EXCEPT ![s] = "finally"]
                    /\ UNCHANGED <<frame, ret>>
               ELSE BeginProcess(s, inbox[s])
       ELSE /\ conn[s] = "fin"
            /\ pc' = [pc EXCEPT ![s] = "finally"]
            /\ UNCHANGED <<frame, ret, inbox, nrecv>>
    /\ UNCHANGED <<engine, sock, conn, nsent, listening, calls>>

\* line 244: send succeeds on a live connection, raises on a broken one, and
\* does either once the peer has closed; the locals of the request are dropped
Send(s) ==
    /\ pc[s] = "send"
    /\ \E sent \in BOOLEAN :
          /\ conn[s] = "up" => sent
          /\ conn[s] = "reset" => ~sent
          /\ pc' = [pc EXCEPT ![s] = IF sent THEN "recv" ELSE "finally"]
          /\ nsent' = [nsent EXCEPT ![s] = IF sent THEN @ + 1 ELSE @]
    /\ frame' = [frame EXCEPT ![s] = NoFrame]
    /\ ret' = [ret EXCEPT ![s] = NoRet]
    /\ UNCHANGED <<engine, sock, conn, inbox, nrecv, listening, calls>>

\* variant: the handler ends without closing its socket
Close_leak(s) ==
    /\ pc[s] = "finally"
    /\ pc' = [pc EXCEPT ![s] = "done"]
    /\ UNCHANGED <<engine, frame, ret, sock, conn, inbox, nrecv, nsent, listening, calls>>

\* lines 246-249: the handler's except and finally
Close(s) ==
    /\ pc[s] = "finally"
    /\ sock' = [sock EXCEPT ![s] = "closed"]
    /\ pc' = [pc EXCEPT ![s] = "done"]
    /\ UNCHANGED <<engine, frame, ret, conn, inbox, nrecv, nsent, listening, calls>>

\* ------------------------------------------------------------ specifications
\* QuantBackend.__init__, lines 17-28, and MT5Server.__init__, lines 211-217
Init ==
    /\ kalman_filter = NoneFilter
    /\ hmm_model = "None"
    /\ regime_history = <<>>
    /\ correlation_matrix = NoneMatrix
    /\ pc = [t \in Threads |-> IF t = Caller THEN "idle" ELSE "unborn"]
    /\ frame = [t \in Threads |-> NoFrame]
    /\ ret = [t \in Threads |-> NoRet]
    /\ sock = [s \in Sessions |-> "none"]
    /\ conn = [s \in Sessions |-> "none"]
    /\ inbox = [s \in Sessions |-> NoReq]
    /\ nrecv = [s \in Sessions |-> 0]
    /\ nsent = [s \in Sessions |-> 0]
    /\ listening = TRUE
    /\ calls = 0

\* the steps of the engine a thread can take on an engine built by __init__:
\* the label history stays empty, so detect_regime never passes its guard
ColdStep(t) ==
    \/ Z_entry(t)
    \/ R_entry(t)
    \/ H_entry(t)
    \/ H_check(t)
    \/ H_init(t)
    \/ H_read(t)
    \/ H_write(t)

FilterStep(t) ==
    \/ Z_predict(t)
    \/ Z_update(t)
    \/ Z_ret(t)

WarmStep(t) ==
    \/ R_checkfit(t)
    \/ R_new(t)
    \/ R_fit(t)
    \/ R_predict(t)
    \/ R_append(t)
    \/ R_stable(t)

Handler(s) == Recv(s) \/ ColdStep(s) \/ Send(s) \/ Close(s)

\* the server: the accept loop, the peers and the handler threads
Next ==
    \/ \E s \in Sessions : Accept(s)
    \/ \E s \in Sessions : ClientSend(s, PeerRequests)
    \/ \E s \in Sessions : ClientClose(s)
    \/ \E s \in Sessions : ConnReset(s)
    \/ \E s \in Sessions : Handler(s)

Spec == Init /\ [][Next]_vars

\* the server with peers that send fewer kinds of request
NextFew ==
    \/ \E s \in Sessions : Accept(s)
    \/ \E s \in Sessions : ClientSend(s, FewRequests)
    \/ \E s \in Sessions : ClientClose(s)
    \/ \E s \in Sessions : ConnReset(s)
    \/ \E s \in Sessions : Handler(s)

\* every started handler thread is scheduled
SpecFair == Init /\ [][NextFew]_vars /\ \A s \in Sessions : WF_vars(Handler(s))

Call ==
    \/ CallInitialize
    \/ CallZscore
    \/ CallRegime
    \/ CallMlProbability
    \/ CallHedge
    \/ CallStop
    \/ CallProcess

\* the engine called directly, one call at a time
NextEngine == Call \/ ColdStep(Caller) \/ FilterStep(Caller)

SpecEngine == Init /\ [][NextEngine]_vars

\* An engine whose label history the program holding it has filled: one label
\* short of the warm-up, exactly warm, and warm with a recent change of label.
SeedHistories ==
    {[i \in 1..(RegimeWarmup - 1) |-> 0],
     [i \in 1..RegimeWarmup |-> 0],
     [i \in 1..RegimeWarmup |-> IF i = RegimeWarmup - 4 THEN 1 ELSE 0]}

InitSeeded ==
    /\ kalman_filter = NoneFilter
    /\ hmm_model = "None"
    /\ regime_history \in SeedHistories
    /\ correlation_matrix = NoneMatrix
    /\ pc = [t \in Threads |-> IF t = Caller THEN "idle" ELSE "unborn"]
    /\ frame = [t \in Threads |-> NoFrame]
    /\ ret = [t \in Threads |-> NoRet]
    /\ sock = [s \in Sessions |-> "none"]
    /\ conn = [s \in Sessions |-> "none"]
    /\ inbox = [s \in Sessions |-> NoReq]
    /\ nrecv = [s \in Sessions |-> 0]
    /\ nsent = [s \in Sessions |-> 0]
    /\ listening = TRUE
    /\ calls = 0

NextSeeded ==
    Call \/ ColdStep(Caller) \/ FilterStep(Caller) \/ WarmStep(Caller)

SpecSeeded == InitSeeded /\ [][NextSeeded]_vars

\* The server on an engine whose label history holds exactly the warm-up
\* number of labels: every request's detect_regime passes the guard of line 72.
\* The peers send a request the model can be fitted on (5) and one whose
\* prices give no return to fit on (13).
WarmRequests == {5, 13}

InitWarm ==
    /\ kalman_filter = NoneFilter
    /\ hmm_model = "None"
    /\ regime_history = [i \in 1..RegimeWarmup |-> 0]
    /\ correlation_matrix = NoneMatrix
    /\ pc = [t \in Threads |-> IF t = Caller THEN "idle" ELSE "unborn"]
    /\ frame = [t \in Threads |-> NoFrame]
    /\ ret = [t \in Threads |-> NoRet]
    /\ sock = [s \in Sessions |-> "none"]
    /\ conn = [s \in Sessions |-> "none"]
    /\ inbox = [s \in Sessions |-> NoReq]
    /\ nrecv = [s \in Sessions |-> 0]
    /\ nsent = [s \in Sessions |-> 0]
    /\ listening = TRUE
    /\ calls = 0

HandlerWarm(s) == Recv(s) \/ ColdStep(s) \/ WarmStep(s) \/ Send(s) \/ Close(s)

NextWarm ==
    \/ \E s \in Sessions : Accept(s)
    \/ \E s \in Sessions : ClientSend(s, WarmRequests)
    \/ \E s \in Sessions : ClientClose(s)
    \/ \E s \in Sessions : ConnReset(s)
    \/ \E s \in Sessions : HandlerWarm(s)

SpecWarm == InitWarm /\ [][NextWarm]_vars

\* The server with peers that send only well-formed requests whose prices and
\* volumes are flat arrays.  Such a request ends at the feature matrix of
\* lines 175-179, so the handler takes the first step of calculate_zscore and
\* of detect_regime and no other step of the engine.
FlatRequests ==
    {i \in ReqIds : /\ Requests[i].kind = "json"
                    /\ Requests[i].prices # NoArr
                    /\ Requests[i].volumes # NoArr
                    /\ Arr(Requests[i].prices).nd = 1
                    /\ Arr(Requests[i].volumes).nd = 1}

FlatStep(t) == Z_entry(t) \/ R_entry(t)

HandlerFlat(s) == Recv(s) \/ FlatStep(s) \/ Send(s) \/ Close(s)

NextFlat ==
    \/ \E s \in Sessions : Accept(s)
    \/ \E s \in Sessions : ClientSend(s, FlatRequests)
    \/ \E s \in Sessions : ClientClose(s)
    \/ \E s \in Sessions : ConnReset(s)
    \/ \E s \in Sessions : HandlerFlat(s)

SpecFlat == Init /\ [][NextFlat]_vars

\* ------------------------------------------------------------------- claims
BundleKeys ==
    {"zScore", "isDirectionalRegime", "mlProbability", "kalmanSignal",
     "hedgeSignal", "correlation", "optimalStopSignal"}

\* thread t holds what process_mt5_data returned
Returned(t) ==
    /\ frame[t].op = "process"
    /\ pc[t] = (IF t = Caller THEN "idle" ELSE "send")

IsBundle(r) == r.kind = "json" /\ DOMAIN r.obj = BundleKeys
IsError(r) == r.kind = "json" /\ DOMAIN r.obj = {"error"}

\* C1: on a fresh engine, process_mt5_data on the end-to-end scenario request
\* (prices 1..30, volumes [100]*30, no pairs) returns a bundle with
\* mlProbability 0.5, isDirectionalRegime false, correlation 1.0 and
\* hedgeSignal true.
C1_ScenarioBundle ==
    (Returned(Caller) /\ frame[Caller].req = ScenarioReq /\ calls = 1)
        => /\ IsBundle(ret[Caller])
           /\ ret[Caller].obj.mlProbability = Unit \div 2
           /\ ret[Caller].obj.isDirectionalRegime = FALSE
           /\ ret[Caller].obj.correlation = Unit
           /\ ret[Caller].obj.hedgeSignal = TRUE

\* C2: on a connection that is up, whenever the handler is about to read the
\* next request or has ended, it has sent exactly one response for every
\* request it received.
C2_ResponsePerRequest ==
    \A s \in Sessions :
        (conn[s] = "up" /\ pc[s] \in {"recv", "done"}) => nsent[s] = nrecv[s]

\* C3: whatever process_mt5_data is given and whatever the engine's state, it
\* returns (nothing is raised) an object with all seven bundle fields and no
\* error field, or an object with the error field alone.
C3_BundleOrError ==
    \A t \in Threads :
        Returned(t) => (IsBundle(ret[t]) \/ IsError(ret[t]))

\* on an engine that has a matrix, a call got as far as the response and
\* returned the error alone
C3_Witness ==
    /\ Returned(Caller)
    /\ IsError(ret[Caller])
    /\ ret[Caller].obj.error = "TypeError"
    /\ ~correlation_matrix.is_none

\* C4: calculate_hedge_ratio on a series with fewer than 2 observations
\* returns the record correlation = 0, beta = 0, hedge_ratio = 0, and a
\* process_mt5_data request with such a pair series (one that gets as far as
\* the hedge step) does not end in an error.
ShortPair(f) == PyLen(Arr(f.a1)) < MinPair \/ PyLen(Arr(f.a2)) < MinPair
C4_NeutralRecord ==
    /\ (pc[Caller] = "idle" /\ frame[Caller].op = "hedge" /\ ShortPair(frame[Caller]))
          => /\ ret[Caller].kind = "dict"
             /\ ret[Caller].correlation = 0
             /\ ret[Caller].beta = 0
             /\ ret[Caller].hedge_ratio = 0
    /\ (Returned(Caller) /\ frame[Caller].a2 # NoArr /\ ShortPair(frame[Caller]))
          => ~IsError(ret[Caller])

\* C5: under any interleaving of the sessions' requests the estimator state
\* keeps its shape (matrix None or 2 x 2, filter None or a 2-vector with a
\* 2 x 2 covariance, history a flat sequence of labels) and no request fails
\* on a shape mismatch between the stored matrix and a new observation.
C5_ShapesKept ==
    /\ correlation_matrix.is_none \/ Shape(correlation_matrix.m) = <<2, 2>>
    /\ kalman_filter.is_none
          \/ (Len(kalman_filter.x) = 2 /\ Shape(kalman_filter.P) = <<2, 2>>)
    /\ \A i \in 1..Len(regime_history) : regime_history[i] \in Labels
    /\ \A s \in Sessions :
          (Returned(s) /\ IsError(ret[s]))
              => ret[s].obj.error # "ValueError: broadcast"

\* one session is about to write the first matrix over the matrix another
\* session wrote meanwhile, while that session is about to write a smoothed one
C5_Witness ==
    \E s \in Sessions, t \in Sessions :
        /\ pc[s] = "H_init"
        /\ pc[t] = "H_write"
        /\ ~correlation_matrix.is_none

\* C6: a session whose connection the peer closed or that broke ends and
\* closes its socket; the step that closes it changes no other session's
\* socket or position; the accept loop keeps running.
C6_OwnSessionOnly ==
    /\ \A s \in Sessions :
          (conn[s] \in {"fin", "reset"}) ~> (sock[s] = "closed" /\ pc[s] = "done")
    /\ [][\A s \in Sessions :
            (sock[s] = "open" /\ sock'[s] = "closed")
                => /\ \A t \in Sessions \ {s} : sock'[t] = sock[t] /\ pc'[t] = pc[t]
                   /\ listening']_vars
    /\ [] listening

\* session 1 has ended on a broken connection and session 2 is still served
C6_Witness ==
    /\ conn[1] = "reset"
    /\ sock[1] = "closed"
    /\ sock[2] = "open"
    /\ pc[2] = "send"

\* C7: called one call at a time, the engine never takes the regime model,
\* the filter or the matrix back to None once it is set, and a fitted regime
\* model stays fitted.
C7_FittedStays ==
    [][/\ ~kalman_filter.is_none => ~kalman_filter'.is_none
       /\ hmm_model # "None" => hmm_model' # "None"
       /\ hmm_model = "fitted" => hmm_model' = "fitted"
       /\ ~correlation_matrix.is_none => ~correlation_matrix'.is_none]_vars

\* all three are set and the last call has returned
C7_Witness ==
    /\ ~kalman_filter.is_none
    /\ hmm_model = "fitted"
    /\ ~correlation_matrix.is_none
    /\ pc[Caller] = "idle"

\* C8: called one call at a time, the call that finds no matrix stores
\* [[1, r], [r, 1]] for its correlation r, and a call that finds a matrix
\* stores 0.95 * old + 0.05 * r2 in entry (0, 1) for its correlation r2.
C8_Smoothing ==
    [][LET r == frame[Caller].corr
           old == correlation_matrix.m
           new == correlation_matrix'.m
       IN  /\ (pc[Caller] = "H_init" /\ pc'[Caller] # "H_init")
                => /\ ~correlation_matrix'.is_none
                   /\ new = << <<MUnit, Entry(r)>>, <<Entry(r), MUnit>> >>
           /\ (pc[Caller] = "H_write" /\ pc'[Caller] # "H_write")
                => IF r = NaN \/ old[1][2] = NaN
                   THEN new[1][2] = NaN
                   ELSE 20 * new[1][2] = 19 * old[1][2] + Entry(r)]_vars

\* after a first call at correlation 1.0 and a second at 0.7: 0.985
C8_Witness ==
    /\ pc[Caller] = "idle"
    /\ frame[Caller].op = "hedge"
    /\ calls = 2
    /\ ~correlation_matrix.is_none
    /\ correlation_matrix.m[1][2] = 197 * (MUnit \div 200)

\* C9: a detect_regime call that finds fewer than 100 labels returns false
\* and neither fits nor queries the regime model.
C9_ColdStart ==
    [][\A t \in Threads :
          (pc[t] = "R_entry" /\ pc'[t] # "R_entry" /\ Len(regime_history) < 100)
              => /\ hmm_model' = hmm_model
                 /\ regime_history' = regime_history
                 /\ pc'[t] \notin {"R_checkfit", "R_new", "R_fit", "R_predict",
                                   "R_append", "R_stable"}
                 /\ IF frame[t].op = "regime"
                    THEN ret'[t] = [kind |-> "bool", v |-> FALSE]
                    ELSE frame'[t].regime = FALSE]_vars

\* detect_regime returned false on a history of 99 labels
C9_Witness ==
    /\ pc[Caller] = "idle"
    /\ frame[Caller].op = "regime"
    /\ Len(regime_history) = 99
    /\ ret[Caller] = [kind |-> "bool", v |-> FALSE]

\* C10: in every bundle, kalmanSignal is true exactly when |zScore| > 2.0
\* and hedgeSignal exactly when correlation > 0.7, both strictly.
C10_Thresholds ==
    \A t \in Threads :
        (Returned(t) /\ IsBundle(ret[t]))
            => LET b == ret[t].obj
               IN  /\ b.kalmanSignal <=> (b.zScore # NaN /\ Abs(b.zScore) > 2 * Unit)
                   /\ b.hedgeSignal <=> (b.correlation # NaN /\ 10 * b.correlation > 7 * Unit)

\* a bundle with zScore exactly 2.0 and correlation exactly 0.7: both false
C10_Witness ==
    /\ Returned(Caller)
    /\ IsBundle(ret[Caller])
    /\ ret[Caller].obj.zScore = 2 * Unit
    /\ ret[Caller].obj.kalmanSignal = FALSE
    /\ 10 * ret[Caller].obj.correlation = 7 * Unit
    /\ ret[Caller].obj.hedgeSignal = FALSE

\* C11: calculate_zscore on an engine whose filter was never initialized
\* returns exactly 0.0 (to the direct caller, or as the zscore of the request
\* being processed), raises nothing and leaves the filter None.
C11_UninitializedZero ==
    [][\A t \in Threads :
          (pc[t] = "Z_entry" /\ pc'[t] # "Z_entry" /\ kalman_filter.is_none)
              => /\ kalman_filter'.is_none
                 /\ IF frame[t].op = "zscore"
                    THEN ret'[t] = [kind |-> "float", v |-> 0]
                    ELSE /\ pc'[t] = "R_entry"
                         /\ frame'[t].zscore = 0
                         /\ ret'[t] = ret[t]]_vars

\* calculate_zscore has returned 0.0 on an engine without a filter
C11_Witness ==
    /\ pc[Caller] = "idle"
    /\ frame[Caller].op = "zscore"
    /\ kalman_filter.is_none
    /\ ret[Caller] = [kind |-> "float", v |-> 0]

\* C12: on a warm engine with no regime model, under any interleaving of the
\* sessions' detect_regime calls the model is fitted at most once: no fit
\* completes on a model that is already fitted and no new model replaces a
\* fitted one.
C12_FitOnce ==
    [][\A t \in Sessions :
          /\ (pc[t] = "R_fit" /\ pc'[t] = "R_predict") => hmm_model # "fitted"
          /\ (pc[t] = "R_new" /\ pc'[t] = "R_fit") => hmm_model # "fitted"]_vars

\* C20: on a warm engine, under any interleaving of the sessions'
\* detect_regime calls no call runs predict on the regime model before a fit
\* of it has completed.
C20_PredictAfterFit ==
    [][\A t \in Sessions :
          (pc[t] = "R_predict" /\ pc'[t] # "R_predict") => hmm_model = "fitted"]_vars

\* C13: the value calculate_zscore returns on an initialized filter is
\* (observation - predicted level) / sqrt(predicted variance), taken after
\* the predict step and before the update step; here for the first call
\* after initialize_kalman_filter, whose predicted belief is known.
C13_PredictedZscore ==
    (/\ pc[Caller] = "idle"
     /\ frame[Caller].op = "zscore"
     /\ ret[Caller].kind = "float"
     /\ calls = 2
     /\ ~kalman_filter.is_none)
        => \E x \in InitialStates, P \in InitialCovariances :
              LET predicted == Predict(initialize_kalman_filter(x, P))
                  z == Observed(frame[Caller].spread)
              IN  /\ Update(predicted, z).kf = kalman_filter
                  /\ ret[Caller].v = ZscoreOf(predicted, z)

\* C14: called one call at a time with at least 100 labels in the history
\* and a price series the model can be fitted on, detect_regime appends
\* exactly one label, the one predicted, and then returns true exactly when
\* the 10 most recent labels, the new one included, are all identical: the
\* history changes only by that append, and the call ends only by that return.
WarmLabels == {"R_checkfit", "R_new", "R_fit", "R_predict", "R_append", "R_stable"}
C14_AppendThenStable ==
    [][LET f == frame[Caller]
           h == regime_history'
           same == \A i \in (Len(h) - 9)..Len(h) : h[i] = h[Len(h)]
       IN  /\ regime_history' # regime_history
                => /\ pc[Caller] = "R_append"
                   /\ regime_history' = regime_history \o <<f.label>>
           /\ (/\ pc[Caller] \in WarmLabels
               /\ pc'[Caller] \notin WarmLabels
               /\ NumReturns(Arr(f.a1)) >= NComponents)
                => /\ pc[Caller] = "R_stable"
                   /\ IF f.op = "regime"
                      THEN ret'[Caller] = [kind |-> "bool", v |-> same]
                      ELSE frame'[Caller].regime = same]_vars

\* C15: called one call at a time with correlations in [-1, 1] (none of them
\* nan, which would stay in the matrix), the smoothed matrix, when present,
\* is symmetric, has 1 on its diagonal and has every entry in [-1, 1].
C15_MatrixBounds ==
    LET m == correlation_matrix.m
    IN  (/\ ~correlation_matrix.is_none
         /\ \A i \in 1..2, j \in 1..2 : m[i][j] # NaN)
            => /\ m[1][2] = m[2][1]
               /\ m[1][1] = MUnit
               /\ m[2][2] = MUnit
               /\ \A i \in 1..2, j \in 1..2 : m[i][j] >= 0 - MUnit /\ m[i][j] <= MUnit

\* three calls have smoothed the matrix to an entry strictly between -1 and 0
C15_Witness ==
    /\ pc[Caller] = "idle"
    /\ frame[Caller].op = "hedge"
    /\ calls = 3
    /\ ~correlation_matrix.is_none
    /\ correlation_matrix.m[1][2] # NaN
    /\ correlation_matrix.m[1][2] > 0 - MUnit
    /\ correlation_matrix.m[1][2] < 0

\* C16: on the server's engine, driven only by requests with flat prices and
\* volumes, the estimator state is in every reachable state as __init__ left
\* it: no filter, no label, no regime model, no matrix; no request gets as
\* far as a step that writes one of them.
C16_StateAsBuilt ==
    /\ kalman_filter = NoneFilter
    /\ regime_history = <<>>
    /\ hmm_model = "None"
    /\ correlation_matrix = NoneMatrix
    /\ \A s \in Sessions :
          pc[s] \in {"unborn", "recv", "Z_entry", "R_entry", "send", "finally", "done"}

\* session 1 has been answered and session 2 has processed a flat request
\* that carries pair prices
C16_Witness ==
    /\ nsent[1] = 1
    /\ pc[2] = "send"
    /\ Requests[frame[2].req].pair1 # NoArr
    /\ IsError(ret[2])

\* C17: from a fresh engine, whatever public operations are called one after
\* the other, the label history stays empty and the regime model stays None
\* (no call gets past the guard of detect_regime), so detect_regime returns
\* false on every call, directly and inside process_mt5_data.
C17_AlwaysCold ==
    /\ regime_history = <<>>
    /\ hmm_model = "None"
    /\ pc[Caller] \notin WarmLabels
    /\ (pc[Caller] = "idle" /\ frame[Caller].op = "regime")
          => ret[Caller] = [kind |-> "bool", v |-> FALSE]
    /\ (Returned(Caller) /\ IsBundle(ret[Caller]))
          => ret[Caller].obj.isDirectionalRegime = FALSE

\* the third call in a row is a detect_regime call that has returned false
\* on an engine that by now has a filter and a matrix
C17_Witness ==
    /\ pc[Caller] = "idle"
    /\ frame[Caller].op = "regime"
    /\ calls = 3
    /\ ~kalman_filter.is_none
    /\ ~correlation_matrix.is_none
    /\ ret[Caller] = [kind |-> "bool", v |-> FALSE]

C19_NoLostUpdate ==
    (/\ nrecv = <<1, 1>>
     /\ nsent = <<0, 0>>
     /\ \A s \in {1, 2} : pc[s] = "send" /\ IsBundle(ret[s]))
        => LET serial(a, b) == Smooth(ObservedMatrix(a), ObservedMatrix(b)).m
           IN  /\ ~correlation_matrix.is_none
               /\ correlation_matrix.m \in {serial(frame[1].corr, frame[2].corr),
                                             serial(frame[2].corr, frame[1].corr)}

====
